---- MODULE Spec2Model ----
(***************************************************************************)
(* rm_all_gists.py: GistDeleter.  One run of the script: read the token,   *)
(* page through GET /gists, print the summaries, ask for confirmation,     *)
(* DELETE every gist in turn, print the completion notice.                 *)
(*                                                                         *)
(* The environment is the GitHub server (which answers every HTTP call     *)
(* with a status, or the transport raises), the process environment        *)
(* (GITHUB_TOKEN) and stdin (one line).  Every external call the program   *)
(* makes is logged, with its outcome, in `calls`; every console.print in   *)
(* `console`.                                                              *)
(***************************************************************************)
EXTENDS Integers, Sequences, FiniteSets, TLC

VARIABLES
    env_token,   \* os.environ: the value os.getenv(ENV_TOKEN_NAME) returns
    token,       \* self.token
    pc,          \* position of the process in __main__ / run()
    exit_code,   \* process exit status; Running while the process is alive
    page,        \* get_all_gists: local `page`
    all_gists,   \* get_all_gists: local `all_gists`
    gists,       \* run(): local `gists`, the value get_all_gists returned
    i,           \* delete_gists: number of loop iterations completed
    calls,       \* log of external calls (GET, DELETE, SLEEP, INPUT) and outcomes
    console,     \* log of console.print lines
    progress,    \* completed count of the current rich progress task
    server_next  \* server: id of the next gist it has not served yet

vars == <<env_token, token, pc, exit_code, page, all_gists, gists, i,
          calls, console, progress, server_next>>

(***************************************************************************)
(* Bounds of the model.                                                    *)
(***************************************************************************)
\* total number of gists the server holds at most
MaxGists == 4
\* largest page the server answers with (the code asks for per_page = 100)
MaxPageLen == 2

(***************************************************************************)
(* Program constants.                                                      *)
(***************************************************************************)
\* get_all_gists: local `per_page` (the module's ITEMS_PER_PAGE is never read)
per_page == 100
\* API_SLEEP_TIME = 0.5 s, in tenths of a second
API_SLEEP_TIME == 5
HTTP_OK == 200
HTTP_NO_CONTENT == 204

\* Python's None, as os.getenv returns it for an unset variable
None == "<None>"
\* exit_code of a process that has not exited
Running == -1

\* values of GITHUB_TOKEN in the environment: unset, empty, set
EnvTokens == {None, "", "ghp_token"}

\* statuses a page request is answered with, besides 200
GetErrorStatuses == {403, 500}
\* statuses a delete request is answered with
DeleteStatuses == {HTTP_NO_CONTENT, HTTP_OK, 404}

(***************************************************************************)
(* Lines of stdin, as sequences of characters (input() drops the newline). *)
(***************************************************************************)
Lines ==
    { <<"y", "e", "s">>,
      <<" ", "Y", "E", "S", " ">>,
      <<"\t", "Y", "e", "s">>,
      <<>>,
      <<" ">>,
      <<"y">>,
      <<"n", "o">>,
      <<"y", "e", "s", "s">>,
      <<"y", " ", "e", "s">>,
      <<"Y", "E", "S", "!">> }

\* str.strip() removes these from both ends
Whitespace == {" ", "\t"}

RECURSIVE lstrip(_)
lstrip(s) ==
    IF s # <<>> /\ Head(s) \in Whitespace THEN lstrip(Tail(s)) ELSE s

RECURSIVE rstrip(_)
rstrip(s) ==
    IF s # <<>> /\ s[Len(s)] \in Whitespace
    THEN rstrip(SubSeq(s, 1, Len(s) - 1))
    ELSE s

\* str.strip()
strip(s) == rstrip(lstrip(s))

lower_char(c) ==
    CASE c = "Y" -> "y"
      [] c = "E" -> "e"
      [] c = "S" -> "s"
      [] c = "N" -> "n"
      [] c = "O" -> "o"
      [] OTHER   -> c

\* str.lower()
lower(s) == [k \in 1..Len(s) |-> lower_char(s[k])]

\* variant: accepts any answer that starts with 'y'
confirm_deletion_startswith(line) ==
    LET s == lower(strip(line)) IN s # <<>> /\ s[1] = "y"
\* _confirm_deletion with the prompt and the read left out:
\* input(...).strip().lower() == 'yes'
confirm_deletion(line) == lower(strip(line)) = <<"y", "e", "s">>

(***************************************************************************)
(* Log entries.                                                            *)
(***************************************************************************)
Call(op, arg, pp, auth, raised, status, body) ==
    [op |-> op, arg |-> arg, per_page |-> pp, auth |-> auth,
     raised |-> raised, status |-> status, body |-> body]

\* requests.get(f'{base_url}/gists', headers, params={'page','per_page'})
GetCall(p, raised, status, body) ==
    Call("GET", p, per_page, token, raised, status, body)

\* requests.delete(f'{base_url}/gists/{id}', headers)
DeleteCall(id, raised, status) ==
    Call("DELETE", id, 0, token, raised, status, <<>>)

\* time.sleep(API_SLEEP_TIME)
SleepCall == Call("SLEEP", API_SLEEP_TIME, 0, "", FALSE, 0, <<>>)

\* input(...), which returned `line`
InputCall(line) == Call("INPUT", 0, 0, "", FALSE, 0, line)

Line(msg, arg) == [msg |-> msg, arg |-> arg]

\* the ids n..m in order
RECURSIVE Range(_, _)
Range(n, m) == IF n > m THEN <<>> ELSE <<n>> \o Range(n + 1, m)

Min(a, b) == IF a < b THEN a ELSE b

(***************************************************************************)
(* Conditions and small steps of the code, one definition each.            *)
(***************************************************************************)
\* variant: `if token is None`
token_missing_none_only(t) == t = None
\* _get_github_token: `if not token`
token_missing(t) == t = None \/ t = ""

\* variant: `if response.status_code >= 500`
fetch_failed_server_errors_only(status) == status >= 500
\* get_all_gists: `if response.status_code != 200`
fetch_failed(status) == status # HTTP_OK

\* variant: `if len(gists) < per_page: break`
end_of_data_short_page(body) == Len(body) < per_page
\* get_all_gists: `if not gists: break`
end_of_data(body) == body = <<>>

\* variant: `all_gists = gists`
extend_overwrite(all, body) == body
\* get_all_gists: `all_gists.extend(gists)`
extend(all, body) == all \o body

\* variant: run() without the emptiness check
no_gists_unchecked(g) == FALSE
\* run: `if not gists`
no_gists(g) == g = <<>>

\* variant: the warning is printed for a raised exception too
delete_diagnostics_warn_and_error(id, raised, status) ==
    IF raised THEN <<Line("warning", id), Line("error", id)>>
    ELSE IF status # HTTP_NO_CONTENT THEN <<Line("warning", id)>>
    ELSE <<>>
\* delete_gists: the lines one attempt prints (the warning inside the try,
\* the error in the except clause)
delete_diagnostics(id, raised, status) ==
    IF raised THEN <<Line("error", id)>>
    ELSE IF status # HTTP_NO_CONTENT THEN <<Line("warning", id)>>
    ELSE <<>>

\* delete_gists: time.sleep(API_SLEEP_TIME) is the last statement of the try
\* block, so an exception raised by requests.delete skips it
delete_sleep(raised) == IF raised THEN <<>> ELSE <<SleepCall>>

\* variant: the try/except encloses the loop, an exception ends the batch
next_index_abort_on_exception(k, raised, total) ==
    IF raised THEN total ELSE k + 1
\* delete_gists: the for loop goes on to the next gist after the try/except
next_index(k, raised, total) == k + 1

\* delete_gists: where the process is once k of total iterations are done
loop_pc(k, total) == IF k < total THEN "deleting" ELSE "complete"

\* variant: `sys.exit(0)` in place of `return`
declined_exit ==
    /\ pc' = "done"
    /\ exit_code' = 0
\* delete_gists: `if not self._confirm_deletion(total): return`, back in
\* run() at the completion notice
declined ==
    /\ pc' = "complete"
    /\ exit_code' = exit_code

\* the summaries run() prints, one per gist, in order
summaries(g) == [k \in 1..Len(g) |-> Line("summary", g[k])]

(***************************************************************************)
(* Initial state: the process has started, nothing has run.                *)
(***************************************************************************)
Init ==
    /\ env_token \in EnvTokens
    /\ token = None
    /\ pc = "main"
    /\ exit_code = Running
    /\ page = 0
    /\ all_gists = <<>>
    /\ gists = <<>>
    /\ i = 0
    /\ calls = <<>>
    /\ console = <<>>
    /\ progress = 0
    /\ server_next = 1

(***************************************************************************)
(* GistDeleter() : __init__ and _get_github_token.                         *)
(***************************************************************************)
Construct ==
    /\ pc = "main"
    /\ IF token_missing(env_token)
       THEN /\ console' = console \o <<Line("token_not_found", 0),
                                       Line("token_setup_guide", 0)>>
            /\ pc' = "exited"
            /\ exit_code' = 1
            /\ token' = token
       ELSE /\ token' = env_token
            /\ pc' = "run"
            /\ UNCHANGED <<console, exit_code>>
    /\ UNCHANGED <<env_token, page, all_gists, gists, i, calls, progress,
                   server_next>>

(***************************************************************************)
(* run() up to the first page request: the start notice, and the locals    *)
(* and the progress task of get_all_gists.                                 *)
(***************************************************************************)
RunBegin ==
    /\ pc = "run"
    /\ console' = Append(console, Line("start", 0))
    /\ all_gists' = <<>>
    /\ page' = 1
    /\ progress' = 0
    /\ pc' = "fetch"
    /\ UNCHANGED <<env_token, token, exit_code, gists, i, calls, server_next>>

(***************************************************************************)
(* One iteration of the while loop of get_all_gists.  The request either   *)
(* raises (nothing catches it: the process dies with a traceback, exit     *)
(* status 1), or is answered with an error status, or with 200 and the     *)
(* next n gists of the server.                                             *)
(***************************************************************************)
GetRaises ==
    /\ pc = "fetch"
    /\ calls' = Append(calls, GetCall(page, TRUE, 0, <<>>))
    /\ pc' = "exited"
    /\ exit_code' = 1
    /\ UNCHANGED <<env_token, token, page, all_gists, gists, i, console,
                   progress, server_next>>

GetPage ==
    /\ pc = "fetch"
    /\ \E status \in GetErrorStatuses \cup {HTTP_OK} :
       \E n \in 0..Min(MaxPageLen, MaxGists - (server_next - 1)) :
          LET body == Range(server_next, server_next + n - 1) IN
          /\ status # HTTP_OK => n = 0
          /\ calls' = Append(calls, GetCall(page, FALSE, status, body))
          /\ server_next' = server_next + n
          /\ IF fetch_failed(status)
             THEN /\ console' = Append(console, Line("fetch_failed", status))
                  /\ pc' = "exited"
                  /\ exit_code' = 1
                  /\ UNCHANGED <<page, all_gists, gists, progress>>
             ELSE IF end_of_data(body)
             THEN /\ gists' = all_gists
                  /\ pc' = "fetched"
                  /\ UNCHANGED <<page, all_gists, progress, console, exit_code>>
             ELSE /\ all_gists' = extend(all_gists, body)
                  /\ progress' = progress + Len(body)
                  /\ page' = page + 1
                  /\ UNCHANGED <<pc, gists, console, exit_code>>
    /\ UNCHANGED <<env_token, token, i>>

(***************************************************************************)
(* run() after get_all_gists returned: the "none found" return, or the     *)
(* count and the summaries.                                                *)
(***************************************************************************)
RunAfterFetch ==
    /\ pc = "fetched"
    /\ IF no_gists(gists)
       THEN /\ console' = Append(console, Line("none_found", 0))
            /\ pc' = "done"
            /\ exit_code' = 0
       ELSE /\ console' = console \o <<Line("found", Len(gists))>>
                                  \o summaries(gists)
            /\ pc' = "confirm"
            /\ exit_code' = exit_code
    /\ UNCHANGED <<env_token, token, page, all_gists, gists, i, calls,
                   progress, server_next>>

(***************************************************************************)
(* delete_gists up to the loop: _confirm_deletion prints the two warnings  *)
(* and reads one line.                                                     *)
(***************************************************************************)
ConfirmDeletion ==
    /\ pc = "confirm"
    /\ \E line \in Lines :
          /\ console' = console \o <<Line("confirm_count", Len(gists)),
                                     Line("irreversible", 0)>>
          /\ calls' = Append(calls, InputCall(line))
          /\ IF confirm_deletion(line)
             THEN /\ pc' = loop_pc(0, Len(gists))
                  /\ exit_code' = exit_code
             ELSE declined
    /\ i' = 0
    /\ progress' = 0
    /\ UNCHANGED <<env_token, token, page, all_gists, gists, server_next>>

(***************************************************************************)
(* One iteration of the for loop of delete_gists, on gists[i + 1].         *)
(***************************************************************************)
DeleteGist ==
    /\ pc = "deleting"
    /\ i < Len(gists)
    /\ \E raised \in BOOLEAN, st \in DeleteStatuses :
          LET id     == gists[i + 1]
              status == IF raised THEN 0 ELSE st
          IN
          /\ raised => st = HTTP_NO_CONTENT
          /\ calls' = calls \o <<DeleteCall(id, raised, status)>>
                            \o delete_sleep(raised)
          /\ console' = console \o delete_diagnostics(id, raised, status)
          /\ i' = next_index(i, raised, Len(gists))
          /\ pc' = loop_pc(i', Len(gists))
    /\ progress' = progress + 1
    /\ UNCHANGED <<env_token, token, exit_code, page, all_gists, gists,
                   server_next>>

(***************************************************************************)
(* run(): the completion notice, then the process ends.                    *)
(***************************************************************************)
PrintComplete ==
    /\ pc = "complete"
    /\ console' = Append(console, Line("complete", 0))
    /\ pc' = "done"
    /\ exit_code' = 0
    /\ UNCHANGED <<env_token, token, page, all_gists, gists, i, calls,
                   progress, server_next>>

Next ==
    \/ Construct
    \/ RunBegin
    \/ GetRaises
    \/ GetPage
    \/ RunAfterFetch
    \/ ConfirmDeletion
    \/ DeleteGist
    \/ PrintComplete

Spec == Init /\ [][Next]_vars

\* the process is sequential and every blocking call (HTTP, sleep, input)
\* returns or raises: a step that can be taken is taken
FairSpec == Spec /\ WF_vars(Next)

(***************************************************************************)
(* Views of the logs, for the properties.                                  *)
(***************************************************************************)
Gets == SelectSeq(calls, LAMBDA c : c.op = "GET")
Deletes == SelectSeq(calls, LAMBDA c : c.op = "DELETE")
Sleeps == SelectSeq(calls, LAMBDA c : c.op = "SLEEP")
Inputs == SelectSeq(calls, LAMBDA c : c.op = "INPUT")

Printed(msg) == SelectSeq(console, LAMBDA l : l.msg = msg)
PrintedFor(msg, id) == SelectSeq(console, LAMBDA l : l.msg = msg /\ l.arg = id)

Last(s) == s[Len(s)]

\* the ids of the DELETE requests, in the order they were issued
DeleteIds == [k \in 1..Len(Deletes) |-> Deletes[k].arg]

\* the bodies of the first n page responses, concatenated
RECURSIVE ConcatPages(_, _)
ConcatPages(G, n) ==
    IF n = 0 THEN <<>> ELSE ConcatPages(G, n - 1) \o G[n].body

\* the lines of Lines that are 'yes' once trimmed and lower-cased, written out
YesLines ==
    { <<"y", "e", "s">>,
      <<" ", "Y", "E", "S", " ">>,
      <<"\t", "Y", "e", "s">> }

\* get_all_gists has returned to run()
FetchReturned == pc \in {"fetched", "confirm", "deleting", "complete", "done"}

\* the prompt was answered, with a line that is / is not 'yes'
Answered == Inputs # <<>>
Confirmed == Answered /\ Inputs[1].body \in YesLines
Declined == Answered /\ Inputs[1].body \notin YesLines

\* delete_gists has returned to run()
DeleteReturned == Answered /\ pc \in {"complete", "done"}

\* a DELETE attempt failed: it raised, or was answered with a status other than 204
Failed(c) == c.raised \/ c.status # 204

(***************************************************************************)
(* C1: a DELETE request is issued only after get_all_gists has returned    *)
(* (its last page request was answered 200 with an empty page) and the one *)
(* line read from stdin is 'yes' once trimmed and lower-cased; after any   *)
(* other line delete_gists returns with no DELETE request and no sleep.    *)
(***************************************************************************)
C1_DeleteOnlyAfterYes ==
    /\ Len(Inputs) <= 1
    /\ \A k \in 1..Len(calls) :
          calls[k].op \in {"DELETE", "SLEEP"} =>
             \E j \in 1..(k - 1) :
                /\ calls[j].op = "INPUT"
                /\ calls[j].body \in YesLines
                /\ j > 1
                /\ calls[j - 1].op = "GET"
                /\ ~calls[j - 1].raised
                /\ calls[j - 1].status = 200
                /\ Len(calls[j - 1].body) = 0
    /\ Declined => /\ pc \in {"complete", "done"}
                   /\ Deletes = <<>>
                   /\ Sleeps = <<>>

C1_Witness ==
    /\ Deletes # <<>>
    /\ Inputs[1].body = <<" ", "Y", "E", "S", " ">>

(***************************************************************************)
(* C2: the page requests are pages 1, 2, ... in order, each with           *)
(* per_page = 100, and none follows an empty page; when get_all_gists has  *)
(* returned, the last page requested is the first empty one and the list   *)
(* returned is the concatenation of the pages before it, in order (every   *)
(* page of the model is shorter than 100 items).                           *)
(***************************************************************************)
C2_PagesInOrderAndConcatenated ==
    /\ \A j \in 1..Len(Gets) :
          /\ Gets[j].arg = j
          /\ Gets[j].per_page = 100
          /\ (~Gets[j].raised /\ Gets[j].status = 200 /\ Len(Gets[j].body) = 0)
                => j = Len(Gets)
    /\ FetchReturned =>
          /\ Gets # <<>>
          /\ \A j \in 1..Len(Gets) : ~Gets[j].raised /\ Gets[j].status = 200
          /\ Len(Last(Gets).body) = 0
          /\ gists = ConcatPages(Gets, Len(Gets) - 1)

C2_Witness ==
    /\ FetchReturned
    /\ Len(Gets) = 3
    /\ Len(Gets[1].body) = 1
    /\ Len(Gets[2].body) = 2

(***************************************************************************)
(* C3: when a page request is answered with a status other than 200 the    *)
(* process has exited with status 1 and that request is the last call it   *)
(* made: no later page request, no list handed to run(), no summary, no    *)
(* confirmation prompt, no DELETE request.                                 *)
(***************************************************************************)
C3_FetchFailureIsFatal ==
    \A k \in 1..Len(calls) :
       (calls[k].op = "GET" /\ ~calls[k].raised /\ calls[k].status # 200) =>
          /\ k = Len(calls)
          /\ pc = "exited"
          /\ exit_code = 1
          /\ Last(console) = Line("fetch_failed", calls[k].status)
          /\ gists = <<>>
          /\ Printed("found") = <<>>
          /\ Printed("summary") = <<>>
          /\ Printed("confirm_count") = <<>>
          /\ Inputs = <<>>
          /\ Deletes = <<>>

C3_Witness ==
    /\ Len(Gets) = 3
    /\ Last(Gets).status = 403
    /\ Len(all_gists) >= 2

(***************************************************************************)
(* C4: after confirmation the DELETE requests are for the records of the   *)
(* list, in list order, one each: while the loop runs they are the first i *)
(* records, and when delete_gists has returned they are all N, whatever    *)
(* the outcome of each attempt.                                            *)
(***************************************************************************)
C4_OneDeletePerRecordInOrder ==
    Confirmed =>
       /\ Len(Deletes) <= Len(gists)
       /\ DeleteIds = SubSeq(gists, 1, Len(Deletes))
       /\ pc = "deleting" => Len(Deletes) < Len(gists)
       /\ DeleteReturned => DeleteIds = gists

C4_Witness ==
    /\ DeleteReturned
    /\ Len(Deletes) = 3
    /\ Deletes[1].raised
    /\ Deletes[2].status = 404
    /\ Deletes[3].status = 204

(***************************************************************************)
(* C5: a confirmed deletion of N records has slept N times when it         *)
(* returns, and every DELETE request is directly followed by a sleep of    *)
(* API_SLEEP_TIME.                                                         *)
(***************************************************************************)
C5_SleepAfterEveryAttempt ==
    /\ DeleteReturned /\ Confirmed => Len(Sleeps) = Len(gists)
    /\ \A k \in 1..Len(calls) :
          (calls[k].op = "DELETE" /\ (k < Len(calls) \/ pc # "deleting")) =>
             /\ k < Len(calls)
             /\ calls[k + 1] = SleepCall

(***************************************************************************)
(* C6: when get_all_gists returned an empty list, run() prints the "none   *)
(* found" notice and ends normally: no prompt, no DELETE request, no       *)
(* completion notice.                                                      *)
(***************************************************************************)
C6_NoGistsNoPrompt ==
    (FetchReturned /\ gists = <<>>) =>
       /\ pc \in {"fetched", "done"}
       /\ Printed("confirm_count") = <<>>
       /\ Inputs = <<>>
       /\ Deletes = <<>>
       /\ Printed("complete") = <<>>
       /\ pc = "done" => /\ exit_code = 0
                         /\ Last(console) = Line("none_found", 0)
                         /\ Len(Printed("none_found")) = 1

C6_Witness ==
    /\ pc = "done"
    /\ gists = <<>>
    /\ Printed("none_found") # <<>>

(***************************************************************************)
(* C7: with GITHUB_TOKEN unset or empty the process exits with status 1 in *)
(* the constructor, having made no call at all (no request, no prompt);    *)
(* and every request carries a token that is not empty.                    *)
(***************************************************************************)
C7_NoTokenNoRequest ==
    /\ (env_token = None \/ env_token = "") =>
          /\ pc \in {"main", "exited"}
          /\ pc = "exited" => exit_code = 1
          /\ calls = <<>>
          /\ Printed("confirm_count") = <<>>
    /\ \A k \in 1..Len(calls) :
          calls[k].op \in {"GET", "DELETE"} =>
             /\ calls[k].auth # None
             /\ calls[k].auth # ""

C7_Witness ==
    /\ env_token = ""
    /\ pc = "exited"
    /\ exit_code = 1

(***************************************************************************)
(* C8: in a confirmed deletion each attempt prints at most one diagnostic  *)
(* line: none after 204, one warning after another status, one error and   *)
(* no warning after an exception; the diagnostic lines are as many as the  *)
(* failed attempts.                                                        *)
(***************************************************************************)
C8_OneDiagnosticPerFailure ==
    /\ \A k \in 1..Len(Deletes) :
          LET c  == Deletes[k]
              id == c.arg
          IN
          /\ Len(PrintedFor("warning", id))
                = (IF ~c.raised /\ c.status # 204 THEN 1 ELSE 0)
          /\ Len(PrintedFor("error", id)) = (IF c.raised THEN 1 ELSE 0)
    /\ Len(Printed("warning")) + Len(Printed("error"))
          = Len(SelectSeq(Deletes, Failed))

C8_Witness ==
    /\ DeleteReturned
    /\ Len(Deletes) = 3
    /\ Deletes[1].status = 204
    /\ Deletes[2].raised
    /\ Deletes[3].status = 200
    /\ Len(Printed("warning")) + Len(Printed("error")) = 2

(***************************************************************************)
(* C9: when get_all_gists returned a list that is not empty, run() always  *)
(* goes on to end normally with the completion notice printed once, as the *)
(* last line, after an attempt on every record if the deletion was         *)
(* confirmed and after none if it was declined.                            *)
(***************************************************************************)
C9_Completed ==
    /\ pc = "done"
    /\ exit_code = 0
    /\ Len(Printed("complete")) = 1
    /\ Last(console) = Line("complete", 0)
    /\ Confirmed => Len(Deletes) = Len(gists)
    /\ Declined => Len(Deletes) = 0

C9_CompletionNotice ==
    /\ []((FetchReturned /\ gists # <<>>) =>
            /\ pc # "exited"
            /\ pc = "done" => C9_Completed
            /\ pc # "done" => Printed("complete") = <<>>)
    /\ (FetchReturned /\ gists # <<>>) ~> C9_Completed

C9_Witness ==
    /\ C9_Completed
    /\ Declined
    /\ Len(gists) = 2

(***************************************************************************)
(* C10: the steps of the fetch loop and the end of the delete loop.        *)
(***************************************************************************)
\* one iteration of the fetch loop has run; r is the request it made
FetchStep(exits_on_exception) ==
    (pc = "fetch" /\ calls' # calls) =>
       LET r        == Last(calls')
           answered == r.op = "GET" /\ ~r.raised
       IN
       /\ (pc' = "fetch") <=>
             (answered /\ r.status = 200 /\ Len(r.body) > 0)
       /\ pc' = "fetch" => page' = page + 1
       /\ (pc' = "fetched") <=>
             (answered /\ r.status = 200 /\ Len(r.body) = 0)
       /\ (pc' = "exited") <=>
             \/ answered /\ r.status # 200
             \/ exits_on_exception /\ r.raised

\* a confirmed delete loop ends after an iteration for each of the N records
DeleteLoopTerminates ==
    (pc = "deleting") ~> (DeleteReturned /\ i = Len(gists)
                            /\ Len(Deletes) = Len(gists))

\* C10 as claimed: the fetch loop ends exactly when a page request is
\* answered with an empty page (get_all_gists returns) or with a status other
\* than 200 (the process exits), and goes on to the next page after every
\* other request, without a bound on the page number; a confirmed delete
\* loop over N records ends after N iterations.
C10_OnlyEmptyOrErrorEndsFetch ==
    /\ [][FetchStep(FALSE)]_vars
    /\ DeleteLoopTerminates

\* C10 as amended: the fetch loop also ends, with the process, when a page
\* request raises an exception.
C10_EmptyErrorOrExceptionEndsFetch ==
    /\ [][FetchStep(TRUE)]_vars
    /\ DeleteLoopTerminates

C10_Witness ==
    /\ pc = "exited"
    /\ Len(Gets) = 2
    /\ Last(Gets).raised

====
